---- MODULE Spec2Model ----
(***************************************************************************)
(* Model of the two-tier, single-flight variant of the heatmap backend     *)
(* (src/backend/server.js, lines 207-571): the rate-limited request queue, *)
(* fetchWithRetry, refreshHeatmapData and the GET /api/heatmap handler,    *)
(* run by the cooperative (single-threaded) scheduler of Node.js.  An      *)
(* action is one run of the event loop: the code between two suspension    *)
(* points (await of a timer or of an HTTP reply), microtasks included.     *)
(*                                                                         *)
(* Time is counted in units of half a CACHE_MAX_AGE (7.5 minutes); the     *)
(* queue delay, the backoff waits and the HTTP timeout are all shorter     *)
(* than one unit, so they are suspension points during which the clock     *)
(* may or may not advance.                                                 *)
(***************************************************************************)
EXTENDS Integers, Sequences, FiniteSets, TLC

\* ---------------------------------------------------------------- bounds
NReq == 2           \* GET /api/heatmap requests that arrive in a run
MaxTicks == 3       \* clock units that pass after process start
MaxInitAge == 4     \* age of the oldest cache file found at process start
MaxLimited == 1     \* most 429 answers the upstream plans for one logical call
MaxTasks == 3       \* tasks submitted to the bench queue in a run
MaxClock == 4       \* clock units that pass in a run of the bench or of the memory-only endpoint

\* ------------------------------------------------------ program constants
CACHE_MAX_AGE == 2  \* 15 minutes, in clock units
STD_TTL == 2        \* NodeCache stdTTL: 900 s, the same 15 minutes
MaxRetries == 5     \* RATE_LIMIT.maxRetries
initialBackoff == 2000  \* RATE_LIMIT.initialBackoff, in milliseconds
maxBackoff == 32000     \* RATE_LIMIT.maxBackoff, in milliseconds
delayMs == 2        \* new RequestQueue(1100)
requestDelay == 1100    \* RATE_LIMIT.requestDelay of the memory-only endpoint, in milliseconds
stdTTL == 900       \* NodeCache stdTTL of the memory-only endpoint, in seconds: 1100 ms, in bench clock units of 550 ms

Reqs == 1..NReq
StartTime == MaxInitAge
EndTime == StartTime + MaxTicks

\* the absent value (null / undefined)
Null == [null |-> TRUE]

\* A table with the shape of the source's: a symbol listed under two sectors.
STOCKS_BY_SECTOR ==
  << [name |-> "Technology",    stocks |-> <<"GOOGL">>],
     [name |-> "Communication", stocks |-> <<"GOOGL", "NFLX">>] >>

\* ------------------------------------------------------------ sequences
RECURSIVE Flatten(_)
Flatten(ss) ==
  IF ss = <<>> THEN <<>> ELSE Head(ss).stocks \o Flatten(Tail(ss))

Includes(s, x) == \E k \in 1..Len(s) : s[k] = x

RECURSIVE Unique(_, _)
Unique(s, acc) ==
  IF s = <<>> THEN acc
  ELSE Unique(Tail(s), IF Includes(acc, Head(s)) THEN acc ELSE Append(acc, Head(s)))

\* Set insertion order: first occurrence of each ticker, in table order.
getAllTickers == Unique(Flatten(STOCKS_BY_SECTOR), <<>>)

Tickers == getAllTickers

\* ------------------------------------------------------------- upstream
\* What the quote and profile endpoints answer on success.
Quotes == { [c |-> 0, d |-> 0, dp |-> 0], [c |-> 10, d |-> 1, dp |-> 2] }
Profiles == { [name |-> "Inc", marketCapitalization |-> 1000] }

\* The upstream's behaviour toward one logical call: 429 to the first k
\* attempts, then `kind` ("ok": data, "err": network error, timeout or a
\* status other than 429).  With k above maxRetries every attempt of the
\* call is answered 429.
Always429 == [k |-> MaxRetries + 1, kind |-> "err"]

Plans == [k : 0..MaxLimited, kind : {"ok", "err"}] \cup {Always429}

\* ------------------------------------------------------------ aggregator
\* the loop of lines 423-428 without its break: the last match wins
RECURSIVE SectorFromLast(_, _)
SectorFromLast(table, ticker) ==
  IF table = <<>> THEN "Other"
  ELSE LET later == SectorFromLast(Tail(table), ticker)
       IN IF later # "Other" THEN later
          ELSE IF Includes(Head(table).stocks, ticker) THEN Head(table).name
          ELSE "Other"

\* lines 421-428: first sector in table order whose list contains the ticker
RECURSIVE SectorFrom(_, _)
SectorFrom(table, ticker) ==
  IF table = <<>> THEN "Other"
  ELSE IF Includes(Head(table).stocks, ticker) THEN Head(table).name
  ELSE SectorFrom(Tail(table), ticker)

SectorOf(ticker) == SectorFrom(STOCKS_BY_SECTOR, ticker)

\* the price test of line 420 left out
ValidQuotePresent(quote) == quote # Null

\* line 420
ValidQuote(quote) == quote # Null /\ quote.c > 0

\* the record without the fallbacks of lines 432 and 436: an absent
\* profile leaves the name empty
StockRecordInBare(table, ticker, quote, profile) ==
  [ symbol |-> ticker,
    name |-> IF profile # Null THEN profile.name ELSE "",
    price |-> quote.c,
    change |-> quote.d,
    changePercent |-> quote.dp,
    marketCap |-> IF profile # Null THEN profile.marketCapitalization ELSE 0,
    sector |-> SectorFrom(table, ticker) ]

\* lines 421-443 for a given sector table (volume, high, low, open and
\* previousClose are copied like change); || takes the fallback for an
\* absent profile and for an empty name
StockRecordIn(table, ticker, quote, profile) ==
  [ symbol |-> ticker,
    name |-> IF profile # Null /\ profile.name # "" THEN profile.name ELSE ticker,
    price |-> quote.c,
    change |-> quote.d,
    changePercent |-> quote.dp,
    marketCap |-> IF profile # Null THEN profile.marketCapitalization ELSE 0,
    sector |-> SectorFrom(table, ticker) ]

StockRecord(ticker, quote, profile) ==
  StockRecordIn(STOCKS_BY_SECTOR, ticker, quote, profile)

BucketIndex(buckets, name) ==
  IF \E k \in 1..Len(buckets) : buckets[k].name = name
  THEN CHOOSE k \in 1..Len(buckets) : buckets[k].name = name
  ELSE 0

\* the record put in front of the bucket's list, and its cap not added
AddStockInFront(buckets, stock) ==
  LET k == BucketIndex(buckets, stock.sector)
      bs == IF k = 0
            THEN Append(buckets, [name |-> stock.sector, stocks |-> <<>>,
                                  totalMarketCap |-> 0, weightedChange |-> 0])
            ELSE buckets
      j == IF k = 0 THEN Len(bs) ELSE k
  IN [bs EXCEPT ![j] = [@ EXCEPT !.stocks = <<stock>> \o @,
                                  !.weightedChange = @ + stock.changePercent * stock.marketCap]]

\* lines 459-471: one forEach step
AddStock(buckets, stock) ==
  LET k == BucketIndex(buckets, stock.sector)
      bs == IF k = 0
            THEN Append(buckets, [name |-> stock.sector, stocks |-> <<>>,
                                  totalMarketCap |-> 0, weightedChange |-> 0])
            ELSE buckets
      j == IF k = 0 THEN Len(bs) ELSE k
  IN [bs EXCEPT ![j] = [@ EXCEPT !.stocks = Append(@, stock),
                                  !.totalMarketCap = @ + stock.marketCap,
                                  !.weightedChange = @ + stock.changePercent * stock.marketCap]]

RECURSIVE GroupBySector(_, _)
GroupBySector(stockData, buckets) ==
  IF stockData = <<>> THEN buckets
  ELSE GroupBySector(Tail(stockData), AddStock(buckets, Head(stockData)))

\* the weighted change divided by the number of members
FinalizePerMember(bucket) ==
  IF bucket.totalMarketCap > 0
  THEN [ name |-> bucket.name, stocks |-> bucket.stocks,
         totalMarketCap |-> bucket.totalMarketCap,
         weightedChange |-> bucket.weightedChange,
         averageChange |-> [num |-> bucket.weightedChange, den |-> Len(bucket.stocks)] ]
  ELSE bucket

\* lines 474-478: averageChange is assigned only when totalMarketCap > 0.
\* The quotient is kept exact, as numerator and denominator.
Finalize(bucket) ==
  IF bucket.totalMarketCap > 0
  THEN [ name |-> bucket.name, stocks |-> bucket.stocks,
         totalMarketCap |-> bucket.totalMarketCap,
         weightedChange |-> bucket.weightedChange,
         averageChange |-> [num |-> bucket.weightedChange, den |-> bucket.totalMarketCap] ]
  ELSE bucket

Aggregate(stockData) ==
  LET g == GroupBySector(stockData, <<>>)
  IN [k \in 1..Len(g) |-> Finalize(g[k])]

\* lines 480-483; cycle names the refresh pass that produced the snapshot
Snapshot(stockData, time, cycle) ==
  [sectors |-> Aggregate(stockData), lastUpdated |-> time, cycle |-> cycle]

\* ------------------------------------------------------------------ state
VARIABLES
  now,           \* Date.now(), in clock units
  cache,         \* the NodeCache entry 'heatmap': Null or [val, expires]
  disk,          \* cache.json: [kind |-> "missing" | "malformed" | "entry", ...]
  isRefreshing,  \* the single-flight flag (line 392)
  requestQueue,  \* the RequestQueue object and the position of its process loop
  req,           \* per request: position of the handler, and what it answered
  pass,          \* per request: the refreshHeatmapData invocation it started
  plan,          \* per pass: the upstream's behaviour toward its current logical call
  published,     \* history: the snapshot of the last completed refresh pass
  saved,         \* history: what the last savePersistentCache did to the file
  lastSettled,   \* history, per pass: the last logical call that settled
  served,        \* history: the snapshot of the latest 200 answer sent since
                 \* the last pass completed (Null when there is none)
  bench,         \* a RequestQueue of its own, driven by arbitrary callers
  agg,           \* refresh passes of their own, fed with arbitrary upstream results
  simple         \* the endpoint of lines 1-205, with the memory cache alone

vars == <<now, cache, disk, isRefreshing, requestQueue, req, pass, plan,
          published, saved, lastSettled, served, bench, agg, simple>>

\* the state of the server proper
serverVars == <<now, cache, disk, isRefreshing, requestQueue, req, pass, plan,
                published, saved, lastSettled, served>>

NewReq == [pc |-> "new", path |-> "none", cachedData |-> Null, status |-> 0, body |-> Null]
Responded(path, status, body) ==
  [pc |-> "done", path |-> path, cachedData |-> Null, status |-> status, body |-> body]

NoPass == [pc |-> "none", i |-> 0, phase |-> "quote", quote |-> Null,
           stockData |-> <<>>, waiter |-> FALSE]
DonePass == [NoPass EXCEPT !.pc = "done"]
\* the invocation left through the catch block of lines 491-493
FailedPass == [NoPass EXCEPT !.pc = "failed"]

\* clock units that may pass between the clock reads of lines 482 and 326
Skews == {0, 1}

\* A snapshot left on disk by an earlier run of the process.
InitStock ==
  << StockRecord("GOOGL", [c |-> 10, d |-> 1, dp |-> 2],
                 [name |-> "Inc", marketCapitalization |-> 1000]) >>

InitDisks ==
  { [kind |-> "missing"], [kind |-> "malformed"] } \cup
  { [kind |-> "entry", timestamp |-> t, data |-> Snapshot(InitStock, l, 0)] :
      <<l, t>> \in { lt \in (0..StartTime) \X (0..StartTime) :
                       lt[1] <= lt[2] /\ lt[2] - lt[1] \in Skews } }

\* lines 226-232 and 392; the cache starts empty (line 219)
ServerInit ==
  /\ now = StartTime
  /\ cache = Null
  /\ disk \in InitDisks
  /\ isRefreshing = FALSE
  /\ requestQueue = [queue |-> <<>>, processing |-> FALSE, lastRequestTime |-> 0,
                     pc |-> "idle", cur |-> Null]
  /\ req = [r \in Reqs |-> NewReq]
  /\ pass = [r \in Reqs |-> NoPass]
  /\ plan = [r \in Reqs |-> Null]
  /\ published = Null
  /\ saved = "none"
  /\ lastSettled = [r \in Reqs |-> Null]
  /\ served = Null

\* line 269: the bench queue as constructed; retryCount is the argument with
\* which its callers invoke fetchWithRetry.  Date.now() is far more than
\* delayMs away from the initial lastRequestTime of 0.
BenchIdle(retryCount) ==
  [queue |-> <<>>, processing |-> FALSE, lastRequestTime |-> 0, loops |-> {},
   clock |-> delayMs, retryCount |-> retryCount, submitted |-> 0, started |-> <<>>,
   settled |-> {}]

\* line 406 and the loop of line 412 about to fetch the first quote
NewPass == [pc |-> "running", i |-> 1, phase |-> "quote", quote |-> Null,
            stockData |-> <<>>, waiter |-> FALSE]

\* no pass has run; upstream holds what the first pass was given, symbol by
\* symbol, first the snapshot of the first pass, out that of the current one
AggIdle == [round |-> 1, p |-> NewPass, upstream |-> <<>>, first |-> Null, out |-> Null]

\* lines 94-97: a handler of the memory-only endpoint that has not run yet
NewHandler == [pc |-> "new", p |-> NoPass, retry |-> 0, wake |-> 0,
               status |-> 0, body |-> Null]

\* line 11: the cache starts empty; no upstream call has been made
SimpleIdle == [clock |-> 0, cache |-> Null, lastCall |-> Null,
               h |-> [r \in Reqs |-> NewHandler]]

Init == ServerInit /\ bench = BenchIdle(0) /\ agg = AggIdle /\ simple = SimpleIdle

\* ------------------------------------------------------------ two-tier cache
\* a lookup that never finds the entry
CacheGetMiss == Null

\* NodeCache.get: an entry is dropped once its expiry time is in the past
CacheGet ==
  IF cache # Null /\ ~(cache.expires < now) THEN cache.val ELSE Null

CacheAfterGet ==
  IF cache # Null /\ cache.expires < now THEN Null ELSE cache

\* an entry stamped anew when it is stored
CacheSetRestamped(val, time) ==
  [val |-> [val EXCEPT !.lastUpdated = time], expires |-> time + STD_TTL]

\* NodeCache.set with the default TTL
CacheSet(val, time) == [val |-> val, expires |-> time + STD_TTL]

\* the read taking whatever the file holds: malformed content gives a
\* snapshot without sectors
LoadPersistentCacheLenient ==
  IF disk.kind = "entry" /\ (now - disk.timestamp) < CACHE_MAX_AGE * 2
  THEN disk.data
  ELSE IF disk.kind = "malformed" THEN Snapshot(<<>>, now, 0) ELSE Null

\* lines 302-320: a missing, malformed or too old file gives null
LoadPersistentCache ==
  IF disk.kind = "entry" /\ (now - disk.timestamp) < CACHE_MAX_AGE * 2
  THEN disk.data
  ELSE Null

\* what writeFileSync may do: write the record, fail before touching the
\* file, or fail after truncating it; the error is caught and logged
SaveOutcomes == {"written", "failed", "truncated"}

\* lines 323-334
SavePersistentCache(data, time, outcome) ==
  CASE outcome = "written"   -> [kind |-> "entry", timestamp |-> time, data |-> data]
    [] outcome = "failed"    -> disk
    [] outcome = "truncated" -> [kind |-> "malformed"]

\* lines 514, 517, 524
Age(data) == now - data.lastUpdated
\* the freshness test of line 517 never succeeding
IsFreshNever(age) == FALSE

IsFresh(age) == age < CACHE_MAX_AGE
\* the stale window bounded by CACHE_MAX_AGE instead of twice that
IsStaleUsableNarrow(age) == age < CACHE_MAX_AGE

IsStaleUsable(age) == age < CACHE_MAX_AGE * 2

\* ------------------------------------------------------------ request queue
\* the wait of lines 250-254 is taken only within delayMs of the last call,
\* that is, only within the same clock unit
SleepChoices(q) == IF q.lastRequestTime = now THEN BOOLEAN ELSE {FALSE}

\* lines 246-265, from the loop test to the next suspension point
ProcessLoop(q, sleeps) ==
  IF Len(q.queue) > 0
  THEN IF sleeps
       THEN [q EXCEPT !.queue = Tail(@), !.cur = Head(q.queue), !.pc = "sleep"]
       ELSE [q EXCEPT !.queue = Tail(@), !.cur = Head(q.queue), !.pc = "axios",
                      !.lastRequestTime = now]
  ELSE [q EXCEPT !.processing = FALSE, !.pc = "idle", !.cur = Null]

\* lines 241-244
Process(q, sleeps) ==
  IF q.processing \/ Len(q.queue) = 0
  THEN q
  ELSE ProcessLoop([q EXCEPT !.processing = TRUE], sleeps)

\* lines 234-239
Add(q, task, sleeps) == Process([q EXCEPT !.queue = Append(@, task)], sleeps)

\* lines 348-349: fetchWithRetry submits one task per attempt
FetchWithRetry(q, r, retryCount, sleeps) ==
  Add(q, [owner |-> r, retry |-> retryCount], sleeps)

\* ------------------------------------------------------------ refresh pass
\* the test of line 396 left out
RefreshGuardMissing == TRUE

\* lines 396-399: the single-flight test
RefreshGuard == ~isRefreshing

\* the assignment of line 401 left out
FlagAfterStartUnset == isRefreshing

\* line 401
FlagAfterStart == TRUE

\* lines 401-417: set the flag and run to the first suspension point, which
\* is inside the queue (the first ticker's quote call has been submitted)
StartPass(r, awaited) ==
  \E p \in Plans, sleeps \in SleepChoices(requestQueue) :
    /\ isRefreshing' = FlagAfterStart
    /\ pass' = [pass EXCEPT ![r] = [pc |-> "running", i |-> 1, phase |-> "quote",
                                    quote |-> Null, stockData |-> <<>>,
                                    waiter |-> awaited]]
    /\ plan' = [plan EXCEPT ![r] = p]
    /\ requestQueue' = FetchWithRetry(requestQueue, r, 0, sleeps)

\* the loop of line 412 left after the first symbol
PassAfterFirstSymbol(p, result) ==
  IF p.phase = "quote"
  THEN [p EXCEPT !.quote = result, !.phase = "profile"]
  ELSE [p EXCEPT
          !.stockData = IF ValidQuote(p.quote)
                        THEN Append(@, StockRecord(Tickers[p.i], p.quote, result))
                        ELSE @,
          !.quote = Null,
          !.phase = "quote",
          !.i = @ + 1,
          !.pc = "done"]

\* the loop going on to the next symbol when the quote is not usable,
\* without asking for the profile
LoopStepSkipsProfile(tickers, table, p, result) ==
  IF p.phase = "quote"
  THEN IF ValidQuote(result)
       THEN [p EXCEPT !.quote = result, !.phase = "profile"]
       ELSE [p EXCEPT !.i = @ + 1,
                      !.pc = IF p.i >= Len(tickers) THEN "done" ELSE "running"]
  ELSE [p EXCEPT
          !.stockData = Append(@, StockRecordIn(table, tickers[p.i], p.quote, result)),
          !.quote = Null,
          !.phase = "quote",
          !.i = @ + 1,
          !.pc = IF p.i >= Len(tickers) THEN "done" ELSE "running"]

\* lines 412-453 for a given ticker list and sector table: what the loop
\* does with the result of one logical call
LoopStep(tickers, table, p, result) ==
  IF p.phase = "quote"
  THEN [p EXCEPT !.quote = result, !.phase = "profile"]
  ELSE [p EXCEPT
          !.stockData = IF ValidQuote(p.quote)
                        THEN Append(@, StockRecordIn(table, tickers[p.i], p.quote, result))
                        ELSE @,
          !.quote = Null,
          !.phase = "quote",
          !.i = @ + 1,
          !.pc = IF p.i >= Len(tickers) THEN "done" ELSE "running"]

\* lines 412-453 with the server's tickers and table
PassAfter(p, result) == LoopStep(Tickers, STOCKS_BY_SECTOR, p, result)

\* the snapshot stamped with the epoch instead of the current time
ResultOfUnstamped(p, cycle) == Snapshot(p.stockData, 0, cycle)

\* lines 455-483: the snapshot built from the records of the finished loop
ResultOf(p, cycle) == Snapshot(p.stockData, now, cycle)

\* cache.set left out
CacheAfterRefreshMissing(result) == cache

\* line 486
CacheAfterRefresh(result) == CacheSet(result, now)

\* savePersistentCache writing nothing while reporting success
DiskAfterRefreshMissing(result, time, outcome) == disk

\* line 487
DiskAfterRefresh(result, time, outcome) == SavePersistentCache(result, time, outcome)

\* the flag cleared by no finally block
FlagAfterRefreshKept == isRefreshing

\* lines 494-496
FlagAfterRefresh == FALSE

\* the skipped call passing through the finally block
FlagAfterSkipCleared == FALSE

\* lines 396-399: the skipped call returns before the try statement, so
\* the finally block of lines 494-496 is not run for it
FlagAfterSkip == isRefreshing

\* lines 539-542: the awaiting handler answers with the fresh snapshot
ReqAfterRefresh(r, result) ==
  IF pass[r].waiter
  THEN [req EXCEPT ![r] = Responded("blocking", 200, result)]
  ELSE req

\* lines 550-552: the body sent with status 503
ErrorBody == [error |-> "Unable to fetch data. Please try again later."]

\* the failure answered through the handler's catch-all status
BlockingAnswerInternalError(cachedData) ==
  IF cachedData # Null
  THEN Responded("blockingSkipped", 200, cachedData)
  ELSE Responded("blockingSkipped", 500, ErrorBody)

\* lines 543-552: the refresh gave nothing; answer with whatever the disk
\* read of line 511 gave, or with 503
BlockingAnswer(cachedData) ==
  IF cachedData # Null
  THEN Responded("blockingSkipped", 200, cachedData)
  ELSE Responded("blockingSkipped", 503, ErrorBody)

\* the latest snapshot sent, after a handler has answered
ServedAfter(answer) == IF answer.status = 200 THEN answer.body ELSE served

\* lines 539-552 after the awaited pass returned null from its catch block:
\* the handler answers from the disk read it made at line 511, or with 503
ReqAfterThrow(r) ==
  IF pass[r].waiter
  THEN [req EXCEPT ![r] = [BlockingAnswer(req[r].cachedData)
                             EXCEPT !.path = "blockingFailed"]]
  ELSE req

\* ------------------------------------------------------------------ actions
Tick ==
  /\ now < EndTime
  /\ now' = now + 1
  /\ UNCHANGED <<cache, disk, isRefreshing, requestQueue, req, pass, plan, published, saved, lastSettled, served, bench, agg, simple>>

\* requests are numbered in order of arrival
Arrives(r) ==
  /\ req[r].pc = "new"
  /\ \A o \in 1..(r - 1) : req[o].pc # "new"

\* lines 502-508
RequestMemoryHit(r) ==
  /\ Arrives(r)
  /\ CacheGet # Null
  /\ req' = [req EXCEPT ![r] = Responded("memory", 200, CacheGet)]
  /\ served' = ServedAfter(req'[r])
  /\ UNCHANGED <<now, cache, disk, isRefreshing, requestQueue, pass, plan, published, saved, lastSettled, bench, agg, simple>>

\* lines 510-521
RequestDiskFresh(r) ==
  /\ Arrives(r)
  /\ CacheGet = Null
  /\ LET cachedData == LoadPersistentCache IN
       /\ cachedData # Null
       /\ IsFresh(Age(cachedData))
       /\ cache' = CacheSet(cachedData, now)
       /\ req' = [req EXCEPT ![r] = Responded("diskFresh", 200, cachedData)]
  /\ served' = ServedAfter(req'[r])
  /\ UNCHANGED <<now, disk, isRefreshing, requestQueue, pass, plan, published, saved, lastSettled, bench, agg, simple>>

\* lines 523-534: answer with the stale snapshot, refresh in the background
RequestDiskStale(r) ==
  /\ Arrives(r)
  /\ CacheGet = Null
  /\ LET cachedData == LoadPersistentCache IN
       /\ cachedData # Null
       /\ ~IsFresh(Age(cachedData))
       /\ IsStaleUsable(Age(cachedData))
       /\ cache' = CacheSet(cachedData, now)
       /\ IF RefreshGuard
          THEN StartPass(r, FALSE)
          ELSE /\ isRefreshing' = FlagAfterSkip
               /\ UNCHANGED <<requestQueue, pass, plan>>
       /\ req' = [req EXCEPT ![r] = Responded("diskStale", 200, cachedData)]
  /\ served' = ServedAfter(req'[r])
  /\ UNCHANGED <<now, disk, published, saved, lastSettled, bench, agg, simple>>

\* lines 511-535 fall through to line 537
ReachesBlockingPath ==
  /\ CacheGet = Null
  /\ LoadPersistentCache # Null => ~IsStaleUsable(Age(LoadPersistentCache))

\* lines 537-539: no usable cache, the handler awaits a refresh pass
RequestBlockingRefresh(r) ==
  /\ Arrives(r)
  /\ ReachesBlockingPath
  /\ RefreshGuard
  /\ StartPass(r, TRUE)
  /\ cache' = CacheAfterGet
  /\ req' = [req EXCEPT ![r] = [@ EXCEPT !.pc = "awaitRefresh", !.path = "blocking",
                                         !.cachedData = LoadPersistentCache]]
  /\ UNCHANGED <<now, disk, published, saved, lastSettled, served, bench, agg, simple>>

\* lines 537-553 when refreshHeatmapData returns null at line 398
RequestBlockingSkipped(r) ==
  /\ Arrives(r)
  /\ ReachesBlockingPath
  /\ ~RefreshGuard
  /\ cache' = CacheAfterGet
  /\ req' = [req EXCEPT ![r] = BlockingAnswer(LoadPersistentCache)]
  /\ served' = ServedAfter(req'[r])
  /\ isRefreshing' = FlagAfterSkip
  /\ UNCHANGED <<now, disk, requestQueue, pass, plan, published, saved, lastSettled, bench, agg, simple>>

\* lines 252-257: the inter-request delay has elapsed, the task is called
QueueWake ==
  /\ requestQueue.pc = "sleep"
  /\ requestQueue' = [requestQueue EXCEPT !.pc = "axios", !.lastRequestTime = now]
  /\ UNCHANGED <<now, cache, disk, isRefreshing, req, pass, plan, published, saved, lastSettled, served, bench, agg, simple>>

\* every failure of the attempt in flight taken for a rate limit
RateLimitedOrFailed(task) ==
  task.retry < plan[task.owner].k \/ plan[task.owner].kind = "err"

\* the upstream answers 429 to the attempt in flight
RateLimited(task) == task.retry < plan[task.owner].k

\* lines 353-361: a 429 with retries left starts the backoff wait
UpstreamRateLimited ==
  /\ requestQueue.pc = "axios"
  /\ RateLimited(requestQueue.cur)
  /\ requestQueue.cur.retry < MaxRetries
  /\ requestQueue' = [requestQueue EXCEPT !.pc = "backoff"]
  /\ UNCHANGED <<now, cache, disk, isRefreshing, req, pass, plan, published, saved, lastSettled, served, bench, agg, simple>>

\* line 362: after the wait, the task submits the next attempt to the queue
\* and awaits its promise; process() returns at line 242, the loop being busy
\* with this very task
BackoffWake ==
  /\ requestQueue.pc = "backoff"
  /\ requestQueue' =
       [FetchWithRetry(requestQueue, requestQueue.cur.owner,
                       requestQueue.cur.retry + 1, FALSE)
          EXCEPT !.pc = IF requestQueue.processing THEN "awaitInner" ELSE @]
  /\ UNCHANGED <<now, cache, disk, isRefreshing, req, pass, plan, published, saved, lastSettled, served, bench, agg, simple>>

\* what axios.get gives the task when the attempt does not start a backoff
Replies(task) ==
  IF RateLimited(task) \/ plan[task.owner].kind = "err"
  THEN {Null}
  ELSE IF pass[task.owner].phase = "quote" THEN Quotes ELSE Profiles

\* lines 258-259 and 352/370: the task settles, the loop goes on to the next
\* task or stops, and the awaiting pass resumes: it submits its next logical
\* call, or (lines 455-496) aggregates, stores and returns the snapshot
UpstreamSettles ==
  /\ requestQueue.pc = "axios"
  /\ ~(RateLimited(requestQueue.cur) /\ requestQueue.cur.retry < MaxRetries)
  /\ LET r == requestQueue.cur.owner IN
     \E reply \in Replies(requestQueue.cur), sleeps \in SleepChoices(requestQueue) :
       LET q == ProcessLoop(requestQueue, sleeps)
           p == PassAfter(pass[r], reply)
           settled == [i |-> pass[r].i, phase |-> pass[r].phase, ok |-> reply # Null]
       IN IF p.pc = "running"
          THEN /\ \E next \in Plans : plan' = [plan EXCEPT ![r] = next]
               /\ pass' = [pass EXCEPT ![r] = p]
               /\ requestQueue' = FetchWithRetry(q, r, 0, sleeps)
               /\ lastSettled' = [lastSettled EXCEPT ![r] = settled]
               /\ UNCHANGED <<now, cache, disk, isRefreshing, req, published, saved, served, bench, agg, simple>>
          ELSE \E skew \in Skews, outcome \in SaveOutcomes :
               LET result == ResultOf(p, r) IN
               /\ now + skew <= EndTime
               /\ cache' = CacheAfterRefresh(result)
               /\ now' = now + skew
               /\ disk' = DiskAfterRefresh(result, now + skew, outcome)
               /\ isRefreshing' = FlagAfterRefresh
               /\ req' = ReqAfterRefresh(r, result)
               /\ pass' = [pass EXCEPT ![r] = DonePass]
               /\ plan' = [plan EXCEPT ![r] = Null]
               /\ published' = result
               /\ served' = IF pass[r].waiter THEN result ELSE Null
               /\ UNCHANGED <<bench, agg, simple>>
               /\ saved' = outcome
               /\ lastSettled' = [lastSettled EXCEPT ![r] = settled]
               /\ requestQueue' = q

Next ==
  \/ Tick
  \/ \E r \in Reqs : RequestMemoryHit(r)
  \/ \E r \in Reqs : RequestDiskFresh(r)
  \/ \E r \in Reqs : RequestDiskStale(r)
  \/ \E r \in Reqs : RequestBlockingRefresh(r)
  \/ \E r \in Reqs : RequestBlockingSkipped(r)
  \/ QueueWake
  \/ UpstreamRateLimited
  \/ BackoffWake
  \/ UpstreamSettles

Spec == Init /\ [][Next]_vars

\* Timers fire and HTTP calls return or time out (line 351), so every step
\* of the queue and of the upstream that is enabled is eventually taken.
FairSpec ==
  /\ Spec
  /\ WF_vars(QueueWake)
  /\ WF_vars(UpstreamRateLimited)
  /\ WF_vars(BackoffWake)
  /\ WF_vars(UpstreamSettles)

\* ------------------------------------------------- a pass that throws
\* No statement of lines 404-490 outside the per-ticker try block throws on
\* any upstream reply; what reaches the catch block of line 491 is a failure
\* of the runtime in lines 455-486 (the aggregation, or cache.set before it
\* has stored anything).  The last call of the pass settles, the loop of
\* the queue stops, the pass resumes and throws: the catch block returns
\* null, the finally block clears the flag, and an awaiting handler goes on
\* at line 541.
RefreshThrows ==
  /\ requestQueue.pc = "axios"
  /\ ~(RateLimited(requestQueue.cur) /\ requestQueue.cur.retry < MaxRetries)
  /\ LET r == requestQueue.cur.owner IN
     \E reply \in Replies(requestQueue.cur), sleeps \in SleepChoices(requestQueue) :
       LET p == PassAfter(pass[r], reply) IN
       /\ p.pc = "done"
       /\ requestQueue' = ProcessLoop(requestQueue, sleeps)
       /\ isRefreshing' = FlagAfterRefresh
       /\ pass' = [pass EXCEPT ![r] = FailedPass]
       /\ plan' = [plan EXCEPT ![r] = Null]
       /\ req' = ReqAfterThrow(r)
       /\ served' = IF pass[r].waiter THEN ServedAfter(req'[r]) ELSE served
       /\ lastSettled' = [lastSettled EXCEPT ![r] =
                            [i |-> pass[r].i, phase |-> pass[r].phase, ok |-> reply # Null]]
       /\ UNCHANGED <<now, cache, disk, published, saved, bench, agg, simple>>

FailNext == Next \/ RefreshThrows

\* the server with passes that may throw, started with no cache file or
\* with one written without delay after its snapshot was stamped
FailInit ==
  /\ Init
  /\ disk.kind # "malformed"
  /\ disk.kind = "entry" => disk.timestamp = disk.data.lastUpdated

FailSpec == FailInit /\ [][FailNext]_vars

\* ------------------------------------------------- the queue on the bench
\* The class RequestQueue (lines 226-267) and the task of fetchWithRetry
\* (lines 349-372) on their own: any number of callers submit attempts at
\* any time, and any number of process() runs is representable.  A run of
\* process() suspended at line 253 (pc "sleep"), at line 351 (pc "fn": the
\* HTTP call is out), at line 361 (pc "backoff") or at line 362 (pc
\* "awaitInner") is an element of bench.loops.  The bench clock counts
\* units of 550 ms.
Min(a, b) == IF a < b THEN a ELSE b

\* the exponent taken one step too far
BackoffTimeLate(retryCount) ==
  Min(initialBackoff * 2^(retryCount + 1), maxBackoff)

\* lines 356-359
BackoffTime(retryCount) ==
  Min(initialBackoff * 2^retryCount, maxBackoff)

\* the newest task taken instead of the oldest
QueuePop(queue) ==
  [task |-> queue[Len(queue)], rest |-> SubSeq(queue, 1, Len(queue) - 1)]

\* line 247: queue.shift()
QueueShift(queue) == [task |-> Head(queue), rest |-> Tail(queue)]

\* the wait of line 253 never taken
MustWaitNever(timeSinceLastRequest) == FALSE

\* line 252
MustWait(timeSinceLastRequest) == timeSinceLastRequest < delayMs

\* lines 256-258: the task is called; its HTTP call goes out at line 351
BenchCall(b, task) ==
  [b EXCEPT !.lastRequestTime = b.clock,
            !.loops = @ \cup {[task |-> task, pc |-> "fn", wake |-> 0, wait |-> 0]},
            !.started = Append(@, [id |-> task.id, at |-> b.clock])]

\* lines 246-265, from the loop test to the next suspension point
BenchLoop(b) ==
  IF Len(b.queue) > 0
  THEN LET next == QueueShift(b.queue)
           timeSinceLastRequest == b.clock - b.lastRequestTime
           shifted == [b EXCEPT !.queue = next.rest]
       IN IF MustWait(timeSinceLastRequest)
          THEN [shifted EXCEPT !.loops = @ \cup
                  {[task |-> next.task, pc |-> "sleep",
                    wake |-> b.clock + (delayMs - timeSinceLastRequest), wait |-> 0]}]
          ELSE BenchCall(shifted, next.task)
  ELSE [b EXCEPT !.processing = FALSE]

\* process() without the test of the processing flag
BenchProcessUnguarded(b) ==
  IF Len(b.queue) = 0
  THEN b
  ELSE BenchLoop([b EXCEPT !.processing = TRUE])

\* lines 241-244
BenchProcess(b) ==
  IF b.processing \/ Len(b.queue) = 0
  THEN b
  ELSE BenchLoop([b EXCEPT !.processing = TRUE])

\* lines 234-239 under lines 348-349: one attempt is submitted; tasks are
\* numbered in submission order
BenchAdd(b, retryCount) ==
  BenchProcess([b EXCEPT !.queue = Append(@, [id |-> b.submitted + 1, retry |-> retryCount]),
                         !.submitted = @ + 1])

BenchTick ==
  /\ bench.clock < delayMs + MaxClock
  /\ bench' = [bench EXCEPT !.clock = @ + 1]
  /\ UNCHANGED <<serverVars, agg, simple>>

\* a caller invokes fetchWithRetry
BenchSubmit ==
  /\ bench.submitted < MaxTasks
  /\ bench' = BenchAdd(bench, bench.retryCount)
  /\ UNCHANGED <<serverVars, agg, simple>>

\* line 253: the timer of sleep() fires, not before its time
BenchTimerFires ==
  /\ \E l \in bench.loops :
       /\ l.pc = "sleep"
       /\ bench.clock >= l.wake
       /\ bench' = BenchCall([bench EXCEPT !.loops = @ \ {l}], l.task)
  /\ UNCHANGED <<serverVars, agg, simple>>

\* lines 353-361: the HTTP call fails with 429 and retries are left
BenchRateLimited ==
  /\ \E l \in bench.loops :
       /\ l.pc = "fn"
       /\ l.task.retry < MaxRetries
       /\ bench' = [bench EXCEPT !.loops = (@ \ {l}) \cup
                      {[l EXCEPT !.pc = "backoff", !.wait = BackoffTime(l.task.retry)]}]
  /\ UNCHANGED <<serverVars, agg, simple>>

\* line 362: the backoff is over, the task submits the next attempt and
\* awaits it
BenchBackoffEnds ==
  /\ \E l \in bench.loops :
       /\ l.pc = "backoff"
       /\ bench.submitted < MaxTasks
       /\ bench' = BenchAdd([bench EXCEPT !.loops = (@ \ {l}) \cup
                                {[l EXCEPT !.pc = "awaitInner"]}],
                            l.task.retry + 1)
  /\ UNCHANGED <<serverVars, agg, simple>>

\* lines 352, 370 and 258-262: the HTTP call ends otherwise, the task
\* returns, its promise is settled and the loop goes on
BenchSettles ==
  /\ \E l \in bench.loops :
       /\ l.pc = "fn"
       /\ bench' = BenchLoop([bench EXCEPT !.loops = @ \ {l},
                                           !.settled = @ \cup {l.task.id}])
  /\ UNCHANGED <<serverVars, agg, simple>>

BenchInit ==
  /\ ServerInit
  /\ disk.kind = "missing"
  /\ bench \in {BenchIdle(retryCount) : retryCount \in 0..MaxRetries}
  /\ agg = AggIdle
  /\ simple = SimpleIdle

BenchNext ==
  \/ BenchTick
  \/ BenchSubmit
  \/ BenchTimerFires
  \/ BenchRateLimited
  \/ BenchBackoffEnds
  \/ BenchSettles

BenchSpec == BenchInit /\ [][BenchNext]_vars

\* ------------------------------------------------ the pass on the desk
\* The loop of lines 412-453 and the aggregation of lines 455-483 on their
\* own, with a table of three symbols (one listed under two sectors) and
\* any upstream results.  A first pass is given arbitrary results, symbol
\* by symbol; a second pass is given the same results again.
AggTable ==
  << [name |-> "Technology",    stocks |-> <<"AAPL", "GOOGL">>],
     [name |-> "Communication", stocks |-> <<"GOOGL", "NFLX">>] >>

\* lines 290-296 for the desk's table
AggTickers == Unique(Flatten(AggTable), <<>>)

\* what fetchQuote may resolve to: nothing, a quote without a price (what
\* the upstream answers for an unknown symbol), or a priced quote
AggQuotes ==
  { Null, [c |-> 0, d |-> 0, dp |-> 0] } \cup
  { [c |-> 10, d |-> dp, dp |-> dp] : dp \in {2, -1, 4} }

\* what fetchProfile may resolve to: nothing, an empty object, or a profile
AggProfiles ==
  { Null, [name |-> "", marketCapitalization |-> 0] } \cup
  { [name |-> "Inc", marketCapitalization |-> cap] : cap \in {1000, 3000, 500} }

\* the array of the pass before kept for the next one
NewStockDataKept(previous) == previous

\* line 406: const stockData = []
NewStockData(previous) == <<>>

\* what the upstream gives the current logical call of the desk's pass
AggReplies ==
  IF agg.round = 1
  THEN IF agg.p.phase = "quote" THEN AggQuotes ELSE AggProfiles
  ELSE IF agg.p.phase = "quote"
       THEN {agg.upstream[agg.p.i].quote}
       ELSE {agg.upstream[agg.p.i].profile}

\* line 417: fetchQuote resolves
AggQuoteArrives ==
  /\ agg.p.pc = "running" /\ agg.p.phase = "quote"
  /\ \E quote \in AggReplies :
       agg' = [agg EXCEPT !.p = LoopStep(AggTickers, AggTable, @, quote)]
  /\ UNCHANGED <<serverVars, bench, simple>>

\* lines 418-448: fetchProfile resolves and the symbol is dealt with
AggProfileArrives ==
  /\ agg.p.pc = "running" /\ agg.p.phase = "profile"
  /\ \E profile \in AggReplies :
       agg' = [agg EXCEPT
                 !.p = LoopStep(AggTickers, AggTable, @, profile),
                 !.upstream = IF agg.round = 1
                              THEN Append(@, [symbol |-> AggTickers[agg.p.i],
                                              quote |-> agg.p.quote,
                                              profile |-> profile])
                              ELSE @]
  /\ UNCHANGED <<serverVars, bench, simple>>

\* lines 455-483: the loop is over, the snapshot is built; the passes are
\* one clock unit apart
AggFinishes ==
  /\ agg.p.pc = "done" /\ agg.out = Null
  /\ agg' = [agg EXCEPT !.out = Snapshot(agg.p.stockData, now + agg.round, agg.round)]
  /\ UNCHANGED <<serverVars, bench, simple>>

\* lines 404-412: the next pass starts
AggStartsAgain ==
  /\ agg.round = 1 /\ agg.out # Null
  /\ agg' = [agg EXCEPT !.round = 2, !.first = agg.out, !.out = Null,
                        !.p = [NewPass EXCEPT !.stockData = NewStockData(agg.p.stockData)]]
  /\ UNCHANGED <<serverVars, bench, simple>>

AggInit ==
  /\ ServerInit
  /\ disk.kind = "missing"
  /\ bench = BenchIdle(0)
  /\ agg = AggIdle
  /\ simple = SimpleIdle

AggNext ==
  \/ AggQuoteArrives
  \/ AggProfileArrives
  \/ AggFinishes
  \/ AggStartsAgain

AggSpec == AggInit /\ [][AggNext]_vars

\* ------------------------------------------------- the memory-only endpoint
\* Lines 1-205: the endpoint with the NodeCache entry alone, no request
\* queue and no refresh flag.  Every handler that misses the cache runs the
\* loop of lines 112-160 itself; fetchWithRetry (lines 55-75) sleeps for
\* requestDelay and then makes the HTTP call.  A handler is suspended at
\* line 57 (pc "sleep"), at line 58 (pc "axios") or at line 68 (pc
\* "backoff").  The clock counts units of requestDelay milliseconds; a timer
\* fires no sooner than its time.
Units(ms) == ms \div requestDelay

\* lines 62-65
SimpleBackoffTime(retryCount) == Min(initialBackoff * 2^retryCount, maxBackoff)

\* line 97
SimpleCacheGet ==
  IF simple.cache # Null /\ ~(simple.cache.expires < simple.clock)
  THEN simple.cache.val
  ELSE Null

\* line 186
SimpleCacheSet(val) == [val |-> val, expires |-> simple.clock + Units(stdTTL * 1000)]

\* line 57: fetchWithRetry is entered and sleeps before the request
SimpleFetch(h, retryCount) ==
  [h EXCEPT !.pc = "sleep", !.retry = retryCount,
            !.wake = simple.clock + Units(requestDelay)]

\* handlers are numbered in order of arrival
SimpleArrives(r) ==
  /\ simple.h[r].pc = "new"
  /\ \A o \in 1..(r - 1) : simple.h[o].pc # "new"

\* what the HTTP call of line 58 gives when it is not answered 429: the
\* data, or an error (line 73: null)
SimpleReplies(h) ==
  {Null} \cup (IF h.p.phase = "quote"
               THEN {[c |-> 10, d |-> 1, dp |-> 2]}
               ELSE {[name |-> "Inc", marketCapitalization |-> 1000]})

SimpleTick ==
  /\ simple.clock < MaxClock
  /\ simple' = [simple EXCEPT !.clock = @ + 1]
  /\ UNCHANGED <<serverVars, bench, agg>>

\* lines 97-101
SimpleCacheHit(r) ==
  /\ SimpleArrives(r)
  /\ SimpleCacheGet # Null
  /\ simple' = [simple EXCEPT !.h[r] = [@ EXCEPT !.pc = "done", !.status = 200,
                                                !.body = SimpleCacheGet]]
  /\ UNCHANGED <<serverVars, bench, agg>>

\* lines 103-117 and 55-57: the handler starts its own pass over the
\* tickers and asks for the first quote
SimpleCacheMiss(r) ==
  /\ SimpleArrives(r)
  /\ SimpleCacheGet = Null
  /\ simple' = [simple EXCEPT !.h[r] = SimpleFetch([@ EXCEPT !.p = NewPass], 0)]
  /\ UNCHANGED <<serverVars, bench, agg>>

\* lines 57-58: the delay is over, the HTTP call goes out
SimpleTimerFires(r) ==
  /\ simple.h[r].pc = "sleep"
  /\ simple.clock >= simple.h[r].wake
  /\ simple' = [simple EXCEPT !.h[r].pc = "axios", !.lastCall = simple.clock]
  /\ UNCHANGED <<serverVars, bench, agg>>

\* lines 60-68: the call is answered 429 and retries are left
SimpleRateLimited(r) ==
  /\ simple.h[r].pc = "axios"
  /\ simple.h[r].retry < MaxRetries
  /\ simple.h[r].retry < MaxLimited
  /\ simple' = [simple EXCEPT
                  !.h[r].pc = "backoff",
                  !.h[r].wake = simple.clock + Units(SimpleBackoffTime(simple.h[r].retry))]
  /\ UNCHANGED <<serverVars, bench, agg>>

\* lines 68-69 and 57: the backoff is over, the next attempt is made
SimpleBackoffEnds(r) ==
  /\ simple.h[r].pc = "backoff"
  /\ simple.clock >= simple.h[r].wake
  /\ simple' = [simple EXCEPT !.h[r] = SimpleFetch(@, simple.h[r].retry + 1)]
  /\ UNCHANGED <<serverVars, bench, agg>>

\* lines 59 and 72-73: the call returns data or null; the loop of lines
\* 112-160 goes on to the next call, or the snapshot is built, stored and
\* sent (lines 162-188)
SimpleSettles(r) ==
  /\ simple.h[r].pc = "axios"
  /\ \E reply \in SimpleReplies(simple.h[r]) :
       LET p == LoopStep(Tickers, STOCKS_BY_SECTOR, simple.h[r].p, reply) IN
       IF p.pc = "running"
       THEN simple' = [simple EXCEPT !.h[r] = SimpleFetch([@ EXCEPT !.p = p], 0)]
       ELSE LET result == Snapshot(p.stockData, simple.clock, r) IN
            simple' = [simple EXCEPT
                         !.cache = SimpleCacheSet(result),
                         !.h[r] = [NewHandler EXCEPT !.pc = "done", !.status = 200,
                                                     !.body = result]]
  /\ UNCHANGED <<serverVars, bench, agg>>

SimpleInit ==
  /\ ServerInit
  /\ disk.kind = "missing"
  /\ bench = BenchIdle(0)
  /\ agg = AggIdle
  /\ simple = SimpleIdle

SimpleNext ==
  \/ SimpleTick
  \/ \E r \in Reqs : SimpleCacheHit(r)
  \/ \E r \in Reqs : SimpleCacheMiss(r)
  \/ \E r \in Reqs : SimpleTimerFires(r)
  \/ \E r \in Reqs : SimpleRateLimited(r)
  \/ \E r \in Reqs : SimpleBackoffEnds(r)
  \/ \E r \in Reqs : SimpleSettles(r)

SimpleSpec == SimpleInit /\ [][SimpleNext]_vars

\* ------------------------------------------------------------------ claims
RunningPasses == {r \in Reqs : pass[r].pc = "running"}

\* request r is answered in this step
Answered(r) == req[r].pc # "done" /\ req'[r].pc = "done"

\* the refresh pass of r reaches line 490 in this step
Completes(r) == pass[r].pc = "running" /\ pass'[r].pc = "done"

\* C1: single-flight: at most one refresh pass is past the guard at any time,
\* and the flag is set while it runs; a second 'no usable cache' request that
\* arrives meanwhile starts no pass of its own.
C1_SingleFlight ==
  /\ Cardinality(RunningPasses) <= 1
  /\ RunningPasses # {} => isRefreshing
  /\ \A r \in Reqs : req[r].path = "blockingSkipped" => pass[r].pc = "none"

C1_Witness ==
  \E r1, r2 \in Reqs :
    /\ r1 # r2
    /\ req[r1].path = "blocking" /\ pass[r1].pc = "running"
    /\ req[r2].path = "blockingSkipped"

\* the logical call (i, phase) of pass r is outstanding
Outstanding(r, i, phase) ==
  pass[r].pc = "running" /\ pass[r].i = i /\ pass[r].phase = phase

Phases == {"quote", "profile"}

\* C2: rate-limit recovery: a logical call to which the upstream answers 429
\* for its first k < maxRetries attempts and then succeeds eventually
\* resolves with the successful (non-absent) result.
C2_RateLimitRecovery ==
  \A r \in Reqs, i \in 1..Len(Tickers), phase \in Phases :
    (Outstanding(r, i, phase) /\ plan[r].kind = "ok" /\ plan[r].k < MaxRetries)
      ~> (lastSettled[r] = [i |-> i, phase |-> phase, ok |-> TRUE])

\* the task (attempt n of the logical call (i, phase) of pass r) has been
\* submitted with add and its promise is not settled
Pending(r, i, phase, n) ==
  /\ Outstanding(r, i, phase)
  /\ \/ Includes(requestQueue.queue, [owner |-> r, retry |-> n])
     \/ requestQueue.cur = [owner |-> r, retry |-> n]

\* the attempt numbers a task can carry: one more than the 429 answers the
\* upstream gives a logical call, and never more than maxRetries
Attempts == 0..(IF MaxLimited < MaxRetries THEN MaxLimited ELSE MaxRetries)

\* C3: queue liveness: every task submitted with add is eventually executed
\* and its promise settled, also a task submitted while another executes.
C3_QueueLiveness ==
  \A r \in Reqs, i \in 1..Len(Tickers), phase \in Phases, n \in Attempts :
    Pending(r, i, phase, n) ~> ~Pending(r, i, phase, n)

\* C4: refresh cycle completion: a started cycle terminates and clears the
\* in-progress flag, whatever the upstream answers.
C4_CycleCompletes ==
  /\ \A r \in Reqs : (pass[r].pc = "running") ~> (pass[r].pc = "done")
  /\ isRefreshing ~> ~isRefreshing

\* C5: a request on the blocking path never finds a refresh in flight (its
\* call of refreshHeatmapData is never the skipped one).
C5_BlockingNeverSkipped ==
  \A r \in Reqs : req[r].path # "blockingSkipped"

\* memory has no entry and the disk snapshot's age is in [TTL, 2 TTL)
StaleWindow ==
  /\ CacheGet = Null
  /\ disk.kind = "entry"
  /\ Age(disk.data) >= CACHE_MAX_AGE
  /\ Age(disk.data) < 2 * CACHE_MAX_AGE

\* C6: stale-while-revalidate: a request arriving in the stale window is
\* answered 200 with the stale snapshot in the same step (no upstream call
\* awaited), the snapshot is placed in memory and one background pass is
\* started; while a background pass runs it is the only pass, however many
\* requests arrive.
C6_StaleWhileRevalidate ==
  /\ [][\A r \in Reqs :
          (Arrives(r) /\ StaleWindow /\ req'[r].pc # "new") =>
            /\ req'[r].pc = "done"
            /\ req'[r].status = 200
            /\ req'[r].body = disk.data
            /\ cache' # Null /\ cache'.val = disk.data
            /\ pass[r].pc = "none" /\ pass'[r].pc = "running" /\ ~pass'[r].waiter
            /\ RunningPasses = {} /\ RunningPasses' = {r}]_vars
  /\ [](\A r \in Reqs :
          (pass[r].pc = "running" /\ ~pass[r].waiter) => RunningPasses = {r})

C6_Witness ==
  \E r1, r2 \in Reqs :
    /\ r1 < r2
    /\ req[r1].path = "diskStale" /\ req[r1].status = 200
    /\ pass[r1].pc = "running"
    /\ req[r2].pc = "done" /\ pass[r2].pc = "none"

\* C7 as stated: a completed background pass replaces the memory entry and
\* the disk entry with its snapshot.
C7_ReplacesBothTiers ==
  [][\A r \in Reqs :
       (Completes(r) /\ ~pass[r].waiter) =>
         /\ cache' # Null /\ cache'.val = published'
         /\ disk'.kind = "entry" /\ disk'.data = published']_vars

\* the last completed pass was a background pass started from the stale path
BackgroundPublished ==
  /\ published # Null
  /\ published.cycle \in Reqs
  /\ req[published.cycle].path = "diskStale"

\* C7 amended: a completed background pass replaces the memory entry, and
\* the disk entry when the write succeeds; every request answered 200 within
\* the TTL of that snapshot carries it, never the stale one.
C7_ReplacesMemoryAndServesNew ==
  /\ [][\A r \in Reqs :
          (Completes(r) /\ ~pass[r].waiter) =>
            /\ published'.cycle = r
            /\ cache' # Null /\ cache'.val = published'
            /\ saved' = "written" => (disk'.kind = "entry" /\ disk'.data = published')]_vars
  /\ [][\A r \in Reqs :
          (Answered(r) /\ req'[r].status = 200 /\ BackgroundPublished
             /\ now <= published.lastUpdated + STD_TTL) =>
            /\ req'[r].body = published'
            /\ req'[r].body # req[published.cycle].body]_vars

C7_Witness ==
  \E c, r \in Reqs :
    /\ req[c].path = "diskStale" /\ pass[c].pc = "done"
    /\ published # Null /\ published.cycle = c
    /\ saved = "failed"
    /\ req[r].path = "memory" /\ req[r].body = published

\* C8: last resort: on the blocking path, when the refresh gives nothing and
\* a disk entry exists (however old), the answer is 200 with that entry.
C8_LastResortFallback ==
  [][\A r \in Reqs :
       (Arrives(r) /\ req'[r].path = "blockingSkipped" /\ disk.kind = "entry") =>
         (req'[r].status = 200 /\ req'[r].body = disk.data)]_vars

\* C9: a pass in which no symbol yields a valid record is a failed refresh:
\* no snapshot without records is ever stored in memory or on disk, or
\* sent in a 200 response.
C9_EmptyPassIsFailure ==
  /\ cache # Null => cache.val.sectors # <<>>
  /\ disk.kind = "entry" => disk.data.sectors # <<>>
  /\ \A r \in Reqs : req[r].status = 200 => req[r].body.sectors # <<>>

\* C10 as stated: after every completed pass, memory and disk both hold the
\* snapshot the caller receives.
C10_WrittenToBothTiers ==
  [][\A r \in Reqs :
       Completes(r) =>
         /\ cache' # Null /\ cache'.val = published'
         /\ disk' = [kind |-> "entry", timestamp |-> now', data |-> published']
         /\ pass[r].waiter => (req'[r].status = 200 /\ req'[r].body = published')]_vars

\* C10 amended: after every completed pass, memory holds the snapshot the
\* caller receives, and so does the single disk record whenever the write
\* succeeded; a failed write leaves the file as it was or unreadable.
C10_WrittenToMemoryAndDiskIfSaved ==
  [][\A r \in Reqs :
       Completes(r) =>
         /\ cache' # Null /\ cache'.val = published'
         /\ pass[r].waiter => (req'[r].status = 200 /\ req'[r].body = published')
         /\ saved' = "written" =>
              disk' = [kind |-> "entry", timestamp |-> now', data |-> published']
         /\ saved' = "failed" => disk' = disk
         /\ saved' = "truncated" => disk'.kind = "malformed"]_vars

C10_Witness ==
  \E r \in Reqs :
    /\ pass[r].pc = "done" /\ req[r].path = "blocking" /\ req[r].status = 200
    /\ published = req[r].body
    /\ cache # Null /\ cache.val = published
    /\ saved = "failed"
    /\ disk.kind = "entry" /\ disk.data # published

MemoryFresh == cache # Null /\ now <= cache.expires

\* C12: fresh in-memory hit: a request arriving while memory holds an
\* unexpired entry is answered 200 with that entry in the same step and
\* nothing else changes: no pass is started, no call is queued, the disk
\* entry is neither read nor written, the flag and the memory entry stay.
C12_MemoryHitFrame ==
  [][\A r \in Reqs :
       (Arrives(r) /\ MemoryFresh /\ req'[r].pc # "new") =>
         /\ req'[r] = Responded("memory", 200, cache.val)
         /\ \A o \in Reqs \ {r} : req'[o] = req[o]
         /\ UNCHANGED <<now, cache, disk, isRefreshing, requestQueue, pass, plan>>]_vars

C12_Witness ==
  \E r, o \in Reqs :
    /\ req[r].path = "memory" /\ req[r].status = 200
    /\ MemoryFresh /\ req[r].body = cache.val
    /\ isRefreshing /\ pass[o].pc = "running" /\ pass[r].pc = "none"

\* memory has no entry and the disk snapshot is younger than the TTL (its
\* age taken from lastUpdated, as line 514 takes it)
FreshOnDisk ==
  /\ ~MemoryFresh
  /\ disk.kind = "entry"
  /\ now - disk.data.lastUpdated < CACHE_MAX_AGE

\* C13: fresh disk fallback: a request arriving when memory has no entry
\* and the disk snapshot is younger than the TTL is answered 200 with the
\* disk snapshot, the snapshot is placed in memory with a full time to
\* live, and no refresh pass is started (flag, queue and disk unchanged).
C13_FreshDiskFallback ==
  [][\A r \in Reqs :
       (Arrives(r) /\ FreshOnDisk /\ req'[r].pc # "new") =>
         /\ req'[r] = Responded("diskFresh", 200, disk.data)
         /\ cache' = [val |-> disk.data, expires |-> now + STD_TTL]
         /\ RunningPasses' = RunningPasses
         /\ UNCHANGED <<disk, isRefreshing, requestQueue, pass, plan>>]_vars

C13_Witness ==
  \E r \in Reqs :
    /\ req[r].path = "diskFresh" /\ req[r].status = 200
    /\ disk.kind = "entry" /\ req[r].body = disk.data
    /\ cache # Null /\ cache.val = disk.data
    /\ ~isRefreshing /\ RunningPasses = {}

\* the stock records of a snapshot, sector by sector
RECURSIVE StocksOf(_)
StocksOf(sectors) ==
  IF sectors = <<>> THEN <<>> ELSE Head(sectors).stocks \o StocksOf(Tail(sectors))

\* the last logical call of the pass of r (the profile of the last symbol)
\* settles in this step and the pass returns its snapshot
CompletesFullPass(r) ==
  /\ Completes(r)
  /\ pass[r].i = Len(Tickers) /\ pass[r].phase = "profile"
  /\ lastSettled'[r].i = Len(Tickers) /\ lastSettled'[r].phase = "profile"

\* every record of the snapshot was fetched by the pass of r: it is one the
\* pass had collected, or the record of the symbol whose profile call
\* settles in this step, built from the quote the pass holds
FetchedBy(r, snapshot) ==
  \A k \in 1..Len(StocksOf(snapshot.sectors)) :
    LET stock == StocksOf(snapshot.sectors)[k] IN
      \/ Includes(pass[r].stockData, stock)
      \/ /\ stock.symbol = Tickers[pass[r].i]
         /\ pass[r].quote # Null /\ stock.price = pass[r].quote.c

\* the snapshots held by the two tiers
Stored ==
  (IF cache # Null THEN {cache.val} ELSE {}) \cup
  (IF disk.kind = "entry" THEN {disk.data} ELSE {})

\* C14 as stated: the memory and disk tiers change only at the completion
\* of a full pass over all symbols, so during a refresh they hold the
\* previous snapshot; every record of a stored snapshot was fetched in one
\* and the same cycle.
C14_TiersChangeOnlyAtCompletion ==
  /\ [][(cache' # cache \/ disk' # disk) => \E r \in Reqs : CompletesFullPass(r)]_vars
  /\ [][\A r \in Reqs :
          (pass[r].pc = "running" /\ pass'[r].pc = "running") =>
            (cache' = cache /\ disk' = disk)]_vars
  /\ [][\A r \in Reqs : Completes(r) => FetchedBy(r, published')]_vars

\* C14 amended: a snapshot made by a refresh enters the tiers only at the
\* completion of a full pass over all symbols, and until then no tier holds
\* anything of the running pass; the disk tier changes at no other time, the
\* memory tier otherwise only by taking the disk snapshot (lines 519, 527)
\* or by losing an expired entry; every record of a stored snapshot was
\* fetched in one and the same cycle.
C14_PublishedOnlyAtCompletion ==
  /\ [][disk' # disk => \E r \in Reqs : CompletesFullPass(r)]_vars
  /\ [][cache' # cache =>
          \/ \E r \in Reqs : CompletesFullPass(r) /\ cache'.val = published'
          \/ disk' = disk /\ disk.kind = "entry" /\ cache' # Null /\ cache'.val = disk.data
          \/ cache' = Null /\ cache.expires < now]_vars
  /\ [][\A r \in Reqs :
          Completes(r) => (published'.cycle = r /\ FetchedBy(r, published'))]_vars
  /\ [](\A s \in Stored : s.cycle \in Reqs => pass[s.cycle].pc = "done")

C14_Witness ==
  /\ published # Null
  /\ Len(StocksOf(published.sectors)) = Len(Tickers)
  /\ Stored = {published}
  /\ \E r \in Reqs : pass[r].pc = "done" /\ published.cycle = r

\* C15: read idempotence: a request answered while the memory entry is
\* within its time to live gets the very snapshot (same sectors, same
\* lastUpdated) that the answer before it carried, unless a refresh pass
\* completed in between.  (The memory entry is set only by a handler that
\* answers with it or by a completing pass, so the answer before was given
\* within the time to live of the same entry.)
C15_ReadIdempotence ==
  [][\A r \in Reqs :
       (Answered(r) /\ MemoryFresh /\ served # Null
          /\ \A c \in Reqs : ~Completes(c)) =>
         /\ req'[r].status = 200
         /\ req'[r].body = served
         /\ req'[r].body.sectors = served.sectors
         /\ req'[r].body.lastUpdated = served.lastUpdated]_vars

C15_Witness ==
  \E r1, r2 \in Reqs :
    /\ r1 < r2
    /\ req[r1].status = 200 /\ req[r2].status = 200
    /\ req[r1].path = "diskFresh" /\ req[r2].path = "memory"
    /\ req[r2].body = req[r1].body
    /\ req[r1].body.lastUpdated < now
    /\ served = req[r2].body /\ MemoryFresh

\* the tasks the bench queue is executing (called and not yet settled)
Executing == {l \in bench.loops : l.pc # "sleep"}

\* C16: queue order: tasks start in the order in which they were submitted
\* (tasks are numbered in submission order, so the k-th start is task k);
\* every started task but the latest has settled, so a task starts only
\* after the one started before it has settled; at most one task is
\* executing at any time.
C16_QueueOrder ==
  /\ \A k \in 1..Len(bench.started) : bench.started[k].id = k
  /\ \A k \in 1..(Len(bench.started) - 1) : bench.started[k].id \in bench.settled
  /\ Cardinality(Executing) <= 1
  /\ \A l \in Executing : l.task.id = bench.started[Len(bench.started)].id

C16_Witness ==
  /\ Len(bench.started) = 3
  /\ bench.settled = {1, 2}
  /\ \E l \in Executing : l.task.id = 3
  /\ bench.started[3].at = bench.started[1].at + 2 * delayMs

\* the upstream HTTP calls that are out (line 351 awaiting the reply)
InFlight == {l \in bench.loops : l.pc = "fn"}

\* C17: at most one upstream HTTP call is in flight at any time, whoever
\* the callers are and whether the attempts are first attempts or retries;
\* every call in flight was issued by a task that went through the queue:
\* it was submitted with add, taken off the queue by the process loop,
\* started by it and has not settled.
C17_OneCallInFlight ==
  /\ Cardinality(InFlight) <= 1
  /\ \A l \in InFlight :
       /\ bench.processing
       /\ l.task.id \in 1..bench.submitted
       /\ ~Includes(bench.queue, l.task)
       /\ \E k \in 1..Len(bench.started) : bench.started[k].id = l.task.id
       /\ l.task.id \notin bench.settled

C17_Witness ==
  /\ \E l \in InFlight : l.task.id = 2 /\ l.task.retry > 0
  /\ Len(bench.queue) = 1
  /\ bench.settled = {1}

\* C18: minimum spacing: any two tasks executed one after the other start
\* at least delayMs apart, whenever they were submitted.
C18_MinimumSpacing ==
  \A k \in 2..Len(bench.started) :
    bench.started[k].at - bench.started[k - 1].at >= delayMs

C18_Witness ==
  /\ Len(bench.started) >= 2
  /\ bench.started[2].at - bench.started[1].at = delayMs
  /\ 1 \in bench.settled
  /\ bench.queue # <<>>

\* C19: backoff schedule: the wait before retry n (n = 1..maxRetries) is
\* min(initialBackoff * 2^(n-1), maxBackoff), which is 2000, 4000, 8000,
\* 16000, 32000 ms; it never exceeds maxBackoff and is not shorter than
\* the wait before any earlier retry.
C19_BackoffSchedule ==
  \A l \in bench.loops :
    l.pc = "backoff" =>
      LET n == l.task.retry + 1 IN
      /\ n \in 1..MaxRetries
      /\ l.wait = Min(initialBackoff * 2^(n - 1), maxBackoff)
      /\ l.wait = <<2000, 4000, 8000, 16000, 32000>>[n]
      /\ l.wait <= maxBackoff
      /\ \A m \in 1..n : BackoffTime(m - 1) <= l.wait

C19_Witness ==
  \E l \in bench.loops :
    /\ l.pc = "backoff"
    /\ l.task.retry + 1 = MaxRetries
    /\ l.wait = maxBackoff

\* C20: retry exhaustion: a logical call whose every attempt the upstream
\* answers with 429 eventually resolves to the absent result (after at most
\* maxRetries retries), it does not throw and does not stay unresolved.
C20_RetryExhaustion ==
  \A r \in Reqs, i \in 1..Len(Tickers), phase \in Phases :
    (Outstanding(r, i, phase) /\ plan[r] = Always429)
      ~> (lastSettled[r] = [i |-> i, phase |-> phase, ok |-> FALSE])

\* the attempt in flight fails, and not with status 429: a network error, a
\* timeout or another error status
FailsOtherwise(task) ==
  plan[task.owner].kind = "err" /\ task.retry >= plan[task.owner].k

\* C21: a failure that is not a rate limit is not retried: the step that
\* follows the one upstream call of the attempt resolves the logical call
\* to the absent result; no backoff wait is started and no further attempt
\* is submitted.
C21_NoRetryOnOtherFailure ==
  [][(requestQueue.pc = "axios" /\ FailsOtherwise(requestQueue.cur)
        /\ requestQueue' # requestQueue) =>
       LET r == requestQueue.cur.owner IN
       /\ lastSettled'[r] = [i |-> pass[r].i, phase |-> pass[r].phase, ok |-> FALSE]
       /\ requestQueue'.pc # "backoff"
       /\ ~Includes(requestQueue'.queue, [owner |-> r, retry |-> requestQueue.cur.retry + 1])]_vars

C21_Witness ==
  \E r \in Reqs :
    /\ pass[r].pc = "running" /\ pass[r].i = 1 /\ pass[r].phase = "profile"
    /\ lastSettled[r] = [i |-> 1, phase |-> "quote", ok |-> FALSE]
    /\ pass[r].quote = Null
    /\ requestQueue.cur = [owner |-> r, retry |-> 0]

\* the records of the snapshot the desk's pass has built
AggStocks == StocksOf(agg.out.sectors)

\* the snapshot has a record of the symbol
HasRecord(symbol) == \E k \in 1..Len(AggStocks) : AggStocks[k].symbol = symbol

\* the quote is present and its price is positive
Priced(quote) == quote # Null /\ quote.c > 0

RECURSIVE SumCap(_)
SumCap(stocks) ==
  IF stocks = <<>> THEN 0 ELSE Head(stocks).marketCap + SumCap(Tail(stocks))

RECURSIVE SumWeighted(_)
SumWeighted(stocks) ==
  IF stocks = <<>> THEN 0
  ELSE Head(stocks).changePercent * Head(stocks).marketCap + SumWeighted(Tail(stocks))

\* C22: validity filter: in the snapshot of a completed pass every record
\* has a positive price; a symbol whose quote is absent or whose price is
\* not positive has no record in any bucket, and the buckets' totals are
\* the sums over their records, so it adds nothing to them.
C22_ValidityFilter ==
  agg.out # Null =>
    /\ \A k \in 1..Len(AggStocks) : AggStocks[k].price > 0
    /\ \A k \in 1..Len(agg.upstream) :
         ~Priced(agg.upstream[k].quote) => ~HasRecord(agg.upstream[k].symbol)
    /\ \A k \in 1..Len(agg.out.sectors) :
         LET bucket == agg.out.sectors[k] IN
         /\ bucket.totalMarketCap = SumCap(bucket.stocks)
         /\ bucket.weightedChange = SumWeighted(bucket.stocks)

C22_Witness ==
  /\ agg.out # Null
  /\ Len(agg.upstream) = Len(AggTickers)
  /\ agg.upstream[1].quote = Null
  /\ agg.upstream[2].quote # Null /\ agg.upstream[2].quote.c = 0
  /\ agg.upstream[2].profile # Null /\ agg.upstream[2].profile.marketCapitalization = 3000
  /\ Priced(agg.upstream[3].quote)
  /\ Len(AggStocks) = 1 /\ AggStocks[1].symbol = AggTickers[3]

\* C23: profile absence does not invalidate a symbol: when the quote is
\* priced and the profile is absent, the snapshot has a record of the
\* symbol, with the symbol as name, market cap 0 and the quote's price.
C23_ProfileAbsence ==
  agg.out # Null =>
    \A k \in 1..Len(agg.upstream) :
      LET given == agg.upstream[k] IN
      (Priced(given.quote) /\ given.profile = Null) =>
        \E j \in 1..Len(AggStocks) :
          /\ AggStocks[j].symbol = given.symbol
          /\ AggStocks[j].name = given.symbol
          /\ AggStocks[j].marketCap = 0
          /\ AggStocks[j].price = given.quote.c
          /\ AggStocks[j].changePercent = given.quote.dp

C23_Witness ==
  /\ agg.out # Null
  /\ \E k \in 1..Len(agg.upstream) :
       /\ Priced(agg.upstream[k].quote) /\ agg.upstream[k].profile = Null
       /\ HasRecord(agg.upstream[k].symbol)
  /\ \E j \in 1..Len(AggStocks) : AggStocks[j].name = "Inc"
  /\ \E j \in 1..Len(AggStocks) :
       AggStocks[j].name = AggStocks[j].symbol /\ AggStocks[j].marketCap = 0

\* the buckets of the snapshot the desk's pass has built
AggBuckets == {agg.out.sectors[k] : k \in 1..Len(agg.out.sectors)}

\* market cap and change percent of the members, in order
Members(bucket) ==
  [k \in 1..Len(bucket.stocks) |->
     <<bucket.stocks[k].marketCap, bucket.stocks[k].changePercent>>]

\* C24: for every bucket with totalMarketCap > 0, averageChange is the sum
\* over its members of changePercent * marketCap divided by the sum of
\* marketCap; members (cap 1000, +2) and (cap 3000, -1) give total 4000 and
\* average -0.25, a single member (cap 500, +4) gives 500 and 4.
C24_WeightedAverage ==
  agg.out # Null =>
    \A bucket \in AggBuckets :
      bucket.totalMarketCap > 0 =>
        /\ "averageChange" \in DOMAIN bucket
        /\ bucket.averageChange.den = SumCap(bucket.stocks)
        /\ bucket.averageChange.num * SumCap(bucket.stocks)
             = SumWeighted(bucket.stocks) * bucket.averageChange.den
        /\ Members(bucket) = << <<1000, 2>>, <<3000, -1>> >> =>
             /\ bucket.totalMarketCap = 4000
             /\ 4 * bucket.averageChange.num = (-1) * bucket.averageChange.den
        /\ Members(bucket) = << <<500, 4>> >> =>
             /\ bucket.totalMarketCap = 500
             /\ bucket.averageChange.num = 4 * bucket.averageChange.den

C24_Witness ==
  /\ agg.out # Null
  /\ Len(agg.out.sectors) = 2
  /\ Members(agg.out.sectors[1]) = << <<1000, 2>>, <<3000, -1>> >>
  /\ Members(agg.out.sectors[2]) = << <<500, 4>> >>
  /\ agg.out.sectors[1].averageChange = [num |-> -1000, den |-> 4000]
  /\ agg.out.sectors[2].averageChange = [num |-> 2000, den |-> 500]

\* C25: every bucket whose summed market cap is 0 has an averageChange in
\* the snapshot, and it is 0.
C25_ZeroCapAverage ==
  agg.out # Null =>
    \A bucket \in AggBuckets :
      SumCap(bucket.stocks) = 0 =>
        /\ "averageChange" \in DOMAIN bucket
        /\ bucket.averageChange.num = 0

\* the symbols the desk's table lists
Listed ==
  UNION { {AggTable[k].stocks[j] : j \in 1..Len(AggTable[k].stocks)} :
            k \in 1..Len(AggTable) }

\* the places (bucket, position) of the snapshot that hold a record of the symbol
PlacesOf(symbol) ==
  {<<k, j>> \in (1..Len(agg.out.sectors)) \X (1..Len(AggTickers)) :
     /\ j <= Len(agg.out.sectors[k].stocks)
     /\ agg.out.sectors[k].stocks[j].symbol = symbol}

\* the first sector of the table, in table order, that lists the symbol
FirstSector(symbol) ==
  LET k == CHOOSE k \in 1..Len(AggTable) :
             /\ Includes(AggTable[k].stocks, symbol)
             /\ \A o \in 1..(k - 1) : ~Includes(AggTable[o].stocks, symbol)
  IN AggTable[k].name

\* C26: sector assignment: each listed symbol is fetched once in a pass,
\* also when the table lists it twice; its record, if it has one, is in
\* one place only, in the bucket of the first sector in table order that
\* lists it; a symbol that no sector lists is given the sector 'Other'.
C26_SectorAssignment ==
  /\ agg.out # Null =>
       /\ Len(agg.upstream) = Cardinality(Listed)
       /\ {agg.upstream[k].symbol : k \in 1..Len(agg.upstream)} = Listed
       /\ \A symbol \in Listed :
            /\ Cardinality(PlacesOf(symbol)) <= 1
            /\ \A place \in PlacesOf(symbol) :
                 /\ agg.out.sectors[place[1]].name = FirstSector(symbol)
                 /\ agg.out.sectors[place[1]].stocks[place[2]].sector = FirstSector(symbol)
       /\ \A k \in 1..Len(agg.upstream) :
            Priced(agg.upstream[k].quote) =>
              Cardinality(PlacesOf(agg.upstream[k].symbol)) = 1
  /\ SectorFrom(AggTable, "TSLA") = "Other"
  /\ SectorFrom(<<>>, "GOOGL") = "Other"

C26_Witness ==
  /\ agg.out # Null
  /\ Len(Flatten(AggTable)) > Cardinality(Listed)
  /\ Len(AggStocks) = Cardinality(Listed)
  /\ PlacesOf("GOOGL") = {<<1, 2>>}
  /\ agg.out.sectors[1].name = "Technology"
  /\ agg.out.sectors[2].name = "Communication"
  /\ Len(agg.out.sectors[2].stocks) = 1

\* where the sector is first met in the record sequence
FirstMet(records, sector) ==
  CHOOSE i \in 1..Len(records) :
    /\ records[i].sector = sector
    /\ \A o \in 1..(i - 1) : records[o].sector # sector

\* the records of the sector, in the order of the record sequence
OfSector(records, sector) ==
  LET InSector(stock) == stock.sector = sector
  IN SelectSeq(records, InSector)

\* C27: grouping: the buckets are in the order in which their sectors are
\* first met in the record sequence, each bucket holds exactly the records
\* of its sector in that order, its totalMarketCap is the sum of its
\* members' marketCap, and no bucket is empty.
C27_Grouping ==
  agg.out # Null =>
    LET records == agg.p.stockData
        buckets == agg.out.sectors
    IN /\ \A i \in 1..Len(records) :
            \E k \in 1..Len(buckets) : buckets[k].name = records[i].sector
       /\ \A k \in 1..Len(buckets) :
            /\ buckets[k].stocks # <<>>
            /\ buckets[k].stocks = OfSector(records, buckets[k].name)
            /\ buckets[k].totalMarketCap = SumCap(buckets[k].stocks)
       /\ \A j, k \in 1..Len(buckets) :
            j < k => FirstMet(records, buckets[j].name) < FirstMet(records, buckets[k].name)

C27_Witness ==
  /\ agg.out # Null
  /\ Len(agg.p.stockData) = 3
  /\ Len(agg.out.sectors) = 2
  /\ Len(agg.out.sectors[1].stocks) = 2
  /\ agg.out.sectors[1].stocks[1].symbol = "AAPL"
  /\ agg.out.sectors[1].stocks[2].symbol = "GOOGL"
  /\ agg.out.sectors[1].totalMarketCap = 3500
  /\ agg.out.sectors[2].totalMarketCap = 0

Unreadable == disk.kind \in {"missing", "malformed"}

\* C29: persistence tolerance: with no memory entry and a missing or
\* malformed cache file, the disk read gives nothing and the request goes
\* on as with no usable cache: it awaits a refresh pass of its own, or, when
\* a pass is running, gets the answer of that path (503); the file is left
\* as it is and the request is never answered with another status.
C29_PersistenceTolerance ==
  [][\A r \in Reqs :
       (Arrives(r) /\ ~MemoryFresh /\ Unreadable /\ req'[r].pc # "new") =>
         /\ req'[r].cachedData = Null
         /\ req'[r].path \in {"blocking", "blockingSkipped"}
         /\ ~isRefreshing =>
              /\ req'[r].pc = "awaitRefresh" /\ req'[r].path = "blocking"
              /\ pass'[r].pc = "running" /\ pass'[r].waiter
         /\ isRefreshing => req'[r] = Responded("blockingSkipped", 503, ErrorBody)
         /\ disk' = disk]_vars

C29_Witness ==
  \E r, o \in Reqs :
    /\ o < r
    /\ pass[o].pc = "done" /\ saved = "truncated" /\ disk.kind = "malformed"
    /\ req[r].path = "blocking" /\ req[r].pc = "awaitRefresh"
    /\ pass[r].pc = "running"

\* the handler of r, arriving in this step, calls refreshHeatmapData
CallsRefresh(r) ==
  Arrives(r) /\ req'[r].path \in {"diskStale", "blocking", "blockingSkipped"}

\* C30: a refresh call made while a pass is running is a no-op: it starts
\* no pass and submits no upstream call, it returns at once (the handler
\* answers in the same step), the disk tier and the flag stay as they are,
\* and so do the running pass and the queue; the memory tier changes only
\* by what the handler itself did before the call (dropping an expired
\* entry at line 503, or storing the disk snapshot at line 527).
C30_SkippedRefreshIsNoOp ==
  [][\A r \in Reqs :
       (CallsRefresh(r) /\ isRefreshing) =>
         /\ req'[r].pc = "done"
         /\ req'[r].path # "blocking"
         /\ pass'[r].pc = "none"
         /\ UNCHANGED <<isRefreshing, disk, requestQueue, pass, plan, published, saved>>
         /\ \/ cache' = cache
            \/ cache' = Null /\ cache.expires < now
            \/ req'[r].path = "diskStale" /\ cache' = [val |-> disk.data, expires |-> now + STD_TTL]]_vars

C30_Witness ==
  \E r, o \in Reqs :
    /\ req[r].path = "blockingSkipped" /\ req[r].pc = "done"
    /\ pass[r].pc = "none"
    /\ isRefreshing
    /\ pass[o].pc = "running" /\ pass[o].i = 2
    /\ requestQueue.pc = "axios" /\ requestQueue.cur.owner = o

\* a refresh pass leaves through its catch block
Fails(r) == pass[r].pc = "running" /\ pass'[r].pc = "failed"

\* C31: a refresh pass that throws leaves the memory entry and the cache
\* file as they were and clears isRefreshing; it returns null, so a handler
\* awaiting it answers from lines 543-552 (200 with the snapshot it read
\* from disk, or 503) and not with the 500 of line 556; the answer a
\* background pass's request had already sent is left as it was.
C31_FailedRefreshFrame ==
  [][\A r \in Reqs :
       Fails(r) =>
         /\ cache' = cache
         /\ disk' = disk
         /\ isRefreshing' = FALSE
         /\ published' = published
         /\ IF pass[r].waiter
            THEN /\ req[r].pc = "awaitRefresh"
                 /\ req'[r].pc = "done"
                 /\ IF req[r].cachedData # Null
                    THEN req'[r].status = 200 /\ req'[r].body = req[r].cachedData
                    ELSE req'[r].status = 503 /\ req'[r].body = ErrorBody
            ELSE /\ req' = req
                 /\ served' = served
                 /\ req[r].pc = "done" /\ req[r].status = 200]_vars

\* a background pass has thrown after its request was answered with the
\* stale snapshot, which is still what memory and disk hold
C31_Witness ==
  \E r \in Reqs :
    /\ pass[r].pc = "failed"
    /\ req[r].path = "diskStale"
    /\ req[r].status = 200
    /\ ~isRefreshing
    /\ cache # Null /\ cache.val = req[r].body
    /\ disk.kind = "entry" /\ disk.data = req[r].body

\* the logical call a record stands for
Call(c) == [i |-> c.i, phase |-> c.phase]

\* the logical call that follows the settled call c in a cycle
NextCall(c) ==
  IF c = Null THEN [i |-> 1, phase |-> "quote"]
  ELSE IF c.phase = "quote" THEN [i |-> c.i, phase |-> "profile"]
  ELSE [i |-> c.i + 1, phase |-> "quote"]

\* the tasks of pass r held by the queue, waiting or being executed
TasksOf(q, r) ==
  {k \in 1..Len(q.queue) : q.queue[k].owner = r} \cup
  (IF q.cur # Null /\ q.cur.owner = r THEN {0} ELSE {})

\* C32: within a cycle the logical calls settle in the order quote, profile
\* of the first symbol, quote, profile of the second, and so on through
\* getAllTickers(), the profile following the quote whether or not the quote
\* was usable; a call is submitted (as one task, attempt 0) only in the step
\* in which the call before it settles, and the cycle ends only when the
\* profile of the last symbol has settled.
C32_CallOrder ==
  [][\A r \in Reqs :
       /\ lastSettled'[r] # lastSettled[r] =>
            /\ Call(lastSettled'[r]) = NextCall(lastSettled[r])
            /\ Call(lastSettled'[r]) = Call(pass[r])
            /\ lastSettled'[r].i \in 1..Len(Tickers)
            /\ IF pass'[r].pc = "running"
               THEN /\ Call(pass'[r]) = NextCall(lastSettled'[r])
                    /\ requestQueue'.cur = [owner |-> r, retry |-> 0]
                    /\ requestQueue'.queue = <<>>
               ELSE /\ Call(lastSettled'[r]) = [i |-> Len(Tickers), phase |-> "profile"]
                    /\ TasksOf(requestQueue', r) = {}
       /\ (pass[r].pc # "running" /\ pass'[r].pc = "running") =>
            /\ lastSettled[r] = Null
            /\ Call(pass'[r]) = NextCall(Null)
            /\ requestQueue'.cur = [owner |-> r, retry |-> 0]
       /\ (pass[r].pc = "running" /\ pass'[r].pc = "running"
             /\ Call(pass'[r]) # Call(pass[r])) =>
            Call(lastSettled'[r]) = Call(pass[r])]_vars

\* the first symbol gave no record, both its calls were made all the same,
\* and the quote of the second symbol has settled: its profile is out
C32_Witness ==
  \E r \in Reqs :
    /\ pass[r].pc = "running"
    /\ Call(pass[r]) = [i |-> 2, phase |-> "profile"]
    /\ pass[r].stockData = <<>>
    /\ Call(lastSettled[r]) = [i |-> 2, phase |-> "quote"]
    /\ TasksOf(requestQueue, r) = {0}

\* C33: every request gets its response: a handler answers in the step in
\* which the request arrives unless it awaits a refresh pass at line 539,
\* and a handler suspended there is eventually resumed and sends its answer.
C33_EndpointLiveness ==
  \A r \in Reqs : (req[r].pc = "awaitRefresh") ~> (req[r].pc = "done")

\* C34: a 200 answer given from the memory entry (line 507) never carries a
\* snapshot that is 2 x CACHE_MAX_AGE old or older at the time it is sent,
\* the snapshot put in memory by the stale-while-revalidate path included.
C34_StalenessBound ==
  [][\A r \in Reqs :
       (Answered(r) /\ req'[r].path = "memory" /\ req'[r].status = 200) =>
         now - req'[r].body.lastUpdated < CACHE_MAX_AGE * 2]_vars

\* the requests answered 200 so far
Served200 == {r \in Reqs : req[r].pc = "done" /\ req[r].status = 200}

\* C35: the lastUpdated of the snapshots sent in 200 answers never goes
\* back: a 200 answer carries a snapshot at least as recent as that of every
\* 200 answer sent before it, whatever savePersistentCache did to the file.
C35_NoRegression ==
  [][\A r \in Reqs :
       (Answered(r) /\ req'[r].status = 200) =>
         \A o \in Served200 : req[o].body.lastUpdated <= req'[r].body.lastUpdated]_vars

\* a refresh whose disk write failed has been served after the older
\* snapshot that is still in the file
C35_Witness ==
  \E o, r \in Served200 :
    /\ saved = "failed"
    /\ published # Null /\ req[r].body = published
    /\ req[o].body.lastUpdated < req[r].body.lastUpdated
    /\ disk.kind = "entry" /\ disk.data = req[o].body

\* C36: isRefreshing is true exactly when one refreshHeatmapData invocation
\* is between line 401 and its finally block, and there is never more than
\* one; so the flag is false again after every exit of that invocation,
\* through the return of line 490 or through the catch block.
C36_FlagConsistency ==
  /\ Cardinality(RunningPasses) <= 1
  /\ isRefreshing <=> (Cardinality(RunningPasses) = 1)

\* one invocation has left through the catch block, and the next one is
\* running with the flag set again
C36_Witness ==
  \E r1, r2 \in Reqs :
    /\ pass[r1].pc = "failed"
    /\ pass[r2].pc = "running"
    /\ isRefreshing

\* C37: a snapshot that loadPersistentCache returns to the handler (its
\* timestamp is younger than 2 x CACHE_MAX_AGE) is always classified fresh
\* or stale-but-usable by the handler's own test on lastUpdated: the
\* request is answered on the disk paths and never reaches line 537.
C37_AgeClassificationAgreement ==
  [][\A r \in Reqs :
       (req[r].pc = "new" /\ req'[r].pc # "new"
          /\ CacheGet = Null /\ LoadPersistentCache # Null) =>
         req'[r].path \in {"diskFresh", "diskStale"}]_vars

\* the handlers of the memory-only endpoint that are inside their pass
SimplePasses == {r \in Reqs : simple.h[r].pc \in {"sleep", "axios", "backoff"}}

\* C38: in the memory-only endpoint, requests that miss the cache never
\* run more than one pass over the tickers at a time, and every upstream
\* call starts at least requestDelay after the upstream call before it,
\* whichever request made that one.
C38_SimpleOnePassAtATime ==
  [][/\ Cardinality(SimplePasses') <= 1
     /\ \A r \in Reqs :
          (simple.h[r].pc = "sleep" /\ simple'.h[r].pc = "axios" /\ simple.lastCall # Null)
            => simple.clock - simple.lastCall >= Units(requestDelay)]_vars

\* a run of process() that can go on only when an attempt still in the
\* queue has been executed: it is suspended at line 258 on a task that
\* awaits its own resubmission (line 362)
WaitsOnQueue(l) == l.pc = "awaitInner"

\* C39: at every suspension point at most one run of process() is active,
\* and while the queue holds a pending task the processing flag is true and
\* the active run is one that will come to that task, not one that is
\* itself waiting for a task of the queue.
C39_ProcessorInvariant ==
  /\ Cardinality(bench.loops) <= 1
  /\ Len(bench.queue) > 0 =>
       /\ bench.processing
       /\ \E l \in bench.loops : ~WaitsOnQueue(l)
====
